---- MODULE Spec2Model ----
(***************************************************************************)
(* Model of sim_ranked.py: a Monte Carlo simulation of progression through *)
(* a World of Warships Ranked Battles league.                              *)
(*                                                                         *)
(* Win rates and random draws are rationals with denominator Den: the      *)
(* integer n stands for n / Den.  random.random() returns a value in       *)
(* [0, 1), i.e. a numerator in 0 .. Den - 1; the rate 1.0 is Den.          *)
(*                                                                         *)
(* Python lists are mutable objects: `heap` holds the contents of the two  *)
(* list objects the module can pass to sim_league (the module-level        *)
(* DEFAULT_STOPS list and the list built from --stop), and `stops` names   *)
(* the one the module variable `stops` refers to.                          *)
(***************************************************************************)
EXTENDS Integers, Sequences, FiniteSets, TLC

\* ---- bounds of the model -------------------------------------------------
Den == 2
MaxStars == 3
MaxGames == 3
MaxRuns == 2

\* ---- helpers -------------------------------------------------------------
Range(s) == {s[i] : i \in DOMAIN s}

Max(S) == CHOOSE m \in S : \A x \in S : x <= m

Min(S) == CHOOSE m \in S : \A x \in S : m <= x

RECURSIVE GCD(_, _)
GCD(a, b) == IF b = 0 THEN a ELSE GCD(b, a % b)

\* An option value as docopt returns it: None, or the text of a number.
None == [given |-> FALSE, val |-> 0]

Text(v) == [given |-> TRUE, val |-> v]

\* DEFAULT_STOPS = [1, 2, 6, 14]
DefaultStops == <<1, 2, 6, 14>>

\* ---- inputs --------------------------------------------------------------
Rates == (0 - 1) .. (Den + 1)

Cutoffs == 0 .. (Den - 1)

StopLists ==
  {<<>>} \cup {<<s>> : s \in (0 - 1) .. MaxStars}
         \cup {<<1, s>> : s \in 2 .. MaxStars}

Options ==
  [stars : 0 .. MaxStars,
   stop : StopLists,
   win_rate : Rates,
   quals_win_rate : {None} \cup {Text(q) : q \in Rates},
   games_played : 0 .. MaxGames,
   runs : 0 .. MaxRuns]

\* ---- state ---------------------------------------------------------------
VARIABLES
  options,          \* the parsed command line (docopt)
  pc,               \* "start", "run_loop", "game_loop", "returned", "done", "error"
  error,            \* which ValueError was raised ("" when none)
  heap,             \* contents of the list objects DEFAULT_STOPS and user
  stops,            \* the list object the module variable stops refers to
  stars, win_rate, quals_win_rate, games_played, runs,   \* module variables
  run,              \* index of the run loop
  results,          \* filled slots of the results buffer
  frame,            \* locals of the active sim_league call
  ret,              \* value returned by the sim_league call
  num_quals, proportion_quals,
  numDraws,         \* history: calls of random.random() in this call
  lastWon,          \* history: the last game of this call was a win
  firstHit,         \* history: first game after which total_stars = stars
  reachedQuals,     \* history: a win brought total_stars to max(checkpoints)
  ref,              \* the same call replayed on the stops list as supplied
  numCalls          \* history: number of sim_league calls

vars == <<options, pc, error, heap, stops, stars, win_rate, quals_win_rate,
          games_played, runs, run, results, frame, ret, num_quals,
          proportion_quals, numDraws, lastWon, firstHit, reachedQuals, ref,
          numCalls>>

NoFrame ==
  [stars |-> 0, stops |-> {}, quals_stop |-> 0, win_rate |-> 0,
   quals_win_rate |-> 0, games_played |-> 0, total_stars |-> 0, game |-> 0,
   cutoff |-> 0]

NoRef == [frame |-> NoFrame, won |-> FALSE, returned |-> FALSE, ret |-> 0]

Init ==
  /\ options \in Options
  /\ pc = "start"
  /\ error = ""
  /\ heap = [DEFAULT_STOPS |-> DefaultStops, user |-> <<>>]
  /\ stops = "none"
  /\ stars = 0 /\ win_rate = 0 /\ quals_win_rate = 0
  /\ games_played = 0 /\ runs = 0
  /\ run = 0
  /\ results = <<>>
  /\ frame = NoFrame
  /\ ret = 0
  /\ num_quals = 0
  /\ proportion_quals = <<0, 1>>
  /\ numDraws = 0 /\ lastWon = FALSE /\ firstHit = 0 /\ reachedQuals = FALSE
  /\ ref = NoRef
  /\ numCalls = 0

\* ---- input checks (lines 114-144) ----------------------------------------
\* The first check that raises, in source order; "" when all pass.
FailedCheck(o) ==
  IF ~(o.stars > 0) THEN "stars"
  ELSE IF o.stop # <<>> /\ Min(Range(o.stop)) < 0 THEN "stops"
  ELSE IF o.win_rate < 0 \/ o.win_rate > Den THEN "win_rate"
  ELSE IF o.quals_win_rate.given /\ (o.win_rate < 0 \/ o.win_rate > Den)
       THEN "quals_win_rate"
  ELSE IF ~(o.games_played > 0) THEN "games_played"
  ELSE IF ~(o.runs > 0) THEN "runs"
  ELSE ""

\* Position of a check in the source; a statement before check k runs
\* exactly when no earlier check raised.
CheckOrder(e) ==
  CASE e = "stars" -> 1 [] e = "stops" -> 2 [] e = "win_rate" -> 3
    [] e = "quals_win_rate" -> 4 [] e = "games_played" -> 5
    [] e = "runs" -> 6 [] OTHER -> 7

CheckInputs ==
  /\ pc = "start"
  /\ LET e == FailedCheck(options)
         k == CheckOrder(e)
     IN /\ error' = e
        /\ pc' = IF e = "" THEN "run_loop" ELSE "error"
        /\ stars' = options.stars
        /\ IF k >= 2
           THEN IF options.stop = <<>>
                THEN stops' = "DEFAULT_STOPS" /\ heap' = heap
                ELSE stops' = "user" /\ heap' = [heap EXCEPT !.user = options.stop]
           ELSE stops' = stops /\ heap' = heap
        /\ win_rate' = IF k >= 3 THEN options.win_rate ELSE win_rate
        /\ quals_win_rate' =
             IF k >= 4
             THEN IF ~options.quals_win_rate.given THEN options.win_rate
                  ELSE options.quals_win_rate.val
             ELSE quals_win_rate
        /\ games_played' = IF k >= 5 THEN options.games_played ELSE games_played
        /\ runs' = IF k >= 6 THEN options.runs ELSE runs
  /\ UNCHANGED <<options, run, results, frame, ret, num_quals,
                 proportion_quals, numDraws, lastWon, firstHit, reachedQuals,
                 ref, numCalls>>

\* ---- sim_league (lines 53-108) -------------------------------------------
\* stops.append(0)
AppendZero(list) == Append(list, 0)

\* mutant: the qualification stop taken as the last stop supplied
QualsStopLast(list) == IF list = <<>> THEN 0 ELSE list[Len(list)]

\* stops.append(0); stops = set(stops); quals_stop = max(stops)
QualsStop(list) == Max(Range(AppendZero(list)))

\* `not quals_win_rate` for a float
Falsy(x) == x = 0

\* mutant: a draw equal to the rate counts as a win
WinOrEqual(rate, cutoff) == rate >= cutoff

\* win_rate > cutoff
Win(rate, cutoff) == rate > cutoff

\* mutant: a loss always costs a star
AfterLossNoStop(total, stopSet) == total - 1

\* if not total_stars in stops: total_stars -= 1
AfterLoss(total, stopSet) == IF total \in stopSet THEN total ELSE total - 1

\* mutant: one game too many
LoopRangeInclusive(n) == 0 .. n

\* range(games_played)
LoopRange(n) == 0 .. (n - 1)

\* mutant: the 0-based loop index is returned
ReturnValueIndex(game) == game

\* return game + 1
ReturnValue(game) == game + 1

\* The stops list as the command line supplied it.
SuppliedStops == IF options.stop = <<>> THEN DefaultStops ELSE options.stop

\* The locals at the loop head of a call: lines 75-85.
EnterFrame(stars_, list, win_rate_, quals_win_rate_, games_played_) ==
  [stars |-> stars_,
   stops |-> Range(AppendZero(list)),
   quals_stop |-> QualsStop(list),
   win_rate |-> win_rate_,
   quals_win_rate |-> IF Falsy(quals_win_rate_) THEN win_rate_
                      ELSE quals_win_rate_,
   games_played |-> games_played_,
   total_stars |-> 0,
   game |-> 0,
   cutoff |-> 0]

\* One pass through the loop with the draw c: lines 90-104.
Game(f, c) ==
  LET won == Win(f.win_rate, c)
      total == IF won THEN f.total_stars + 1
               ELSE AfterLoss(f.total_stars, f.stops)
      inQuals == won /\ total = f.quals_stop
      qualified == won /\ ~inQuals /\ total = f.stars
  IN [frame |-> [f EXCEPT !.cutoff = c,
                          !.total_stars = total,
                          !.win_rate = IF inQuals THEN f.quals_win_rate ELSE @,
                          !.game = IF qualified THEN @ ELSE @ + 1],
      won |-> won,
      returned |-> qualified,
      ret |-> IF qualified THEN ReturnValue(f.game) ELSE 0]

\* The replayed call takes the same step on the same draw.
RefGame(r, c) ==
  IF r.returned \/ r.frame.game \notin LoopRange(r.frame.games_played)
  THEN r
  ELSE Game(r.frame, c)

\* The call of line 150 up to the loop head.
CallSimLeague ==
  /\ pc = "run_loop"
  /\ run < runs
  /\ heap' = [heap EXCEPT ![stops] = AppendZero(@)]
  /\ frame' = EnterFrame(stars, heap[stops], win_rate, quals_win_rate,
                         games_played)
  /\ ref' = [frame |-> EnterFrame(stars, SuppliedStops, win_rate,
                                  quals_win_rate, games_played),
             won |-> FALSE, returned |-> FALSE, ret |-> 0]
  /\ pc' = "game_loop"
  /\ numCalls' = numCalls + 1
  /\ UNCHANGED <<options, error, stops, stars, win_rate, quals_win_rate,
                 games_played, runs, run, results, ret, num_quals,
                 proportion_quals, numDraws, lastWon, firstHit, reachedQuals>>

\* One pass through the loop: lines 88-104.
PlayGame ==
  /\ pc = "game_loop"
  /\ frame.game \in LoopRange(frame.games_played)
  /\ \E cutoff \in Cutoffs :
       LET g == Game(frame, cutoff)
       IN /\ frame' = g.frame
          /\ pc' = IF g.returned THEN "returned" ELSE "game_loop"
          /\ ret' = IF g.returned THEN g.ret ELSE ret
          /\ ref' = RefGame(ref, cutoff)
          /\ numDraws' = numDraws + 1
          /\ lastWon' = g.won
          /\ firstHit' = IF firstHit = 0 /\ g.frame.total_stars = options.stars
                         THEN numDraws + 1 ELSE firstHit
          /\ reachedQuals' =
               (reachedQuals \/
                  (g.won /\ g.frame.total_stars = Max(Range(SuppliedStops) \cup {0})))
  /\ UNCHANGED <<options, error, heap, stops, stars, win_rate, quals_win_rate,
                 games_played, runs, run, results, num_quals,
                 proportion_quals, numCalls>>

\* The loop ran out: line 108.
FailToQualify ==
  /\ pc = "game_loop"
  /\ frame.game \notin LoopRange(frame.games_played)
  /\ pc' = "returned"
  /\ ret' = 0
  /\ ref' = IF ref.returned THEN ref ELSE [ref EXCEPT !.returned = TRUE, !.ret = 0]
  /\ UNCHANGED <<options, error, heap, stops, stars, win_rate, quals_win_rate,
                 games_played, runs, run, results, frame, num_quals,
                 proportion_quals, numDraws, lastWon, firstHit, reachedQuals,
                 numCalls>>

\* ---- run loop and reduction (lines 146-161) ------------------------------
\* results[run] = sim_league(...)
StoreResult ==
  /\ pc = "returned"
  /\ results' = Append(results, ret)
  /\ run' = run + 1
  /\ frame' = NoFrame
  /\ ret' = 0
  /\ ref' = NoRef
  /\ numDraws' = 0 /\ lastWon' = FALSE /\ firstHit' = 0
  /\ reachedQuals' = FALSE
  /\ pc' = "run_loop"
  /\ UNCHANGED <<options, error, heap, stops, stars, win_rate, quals_win_rate,
                 games_played, runs, num_quals, proportion_quals, numCalls>>

\* mutant: zero results counted as qualifications
CountNonNegative(res) == Cardinality({i \in DOMAIN res : res[i] >= 0})

\* (results > 0).sum()
CountPositive(res) == Cardinality({i \in DOMAIN res : res[i] > 0})

\* num_quals / runs, as a fraction in lowest terms
Divide(a, b) == <<a \div GCD(a, b), b \div GCD(a, b)>>

PrintResults ==
  /\ pc = "run_loop"
  /\ ~(run < runs)
  /\ num_quals' = CountPositive(results)
  /\ proportion_quals' = Divide(CountPositive(results), runs)
  /\ pc' = "done"
  /\ UNCHANGED <<options, error, heap, stops, stars, win_rate, quals_win_rate,
                 games_played, runs, run, results, frame, ret, numDraws,
                 lastWon, firstHit, reachedQuals, ref, numCalls>>

Next ==
  \/ CheckInputs
  \/ CallSimLeague
  \/ PlayGame
  \/ FailToQualify
  \/ StoreResult
  \/ PrintResults

Spec == Init /\ [][Next]_vars

\* ---- properties ----------------------------------------------------------
\* The checkpoints of the configuration: the stops the caller supplied (the
\* Bronze League stops when none were), with 0 always a member.
Checkpoints == Range(SuppliedStops) \cup {0}

QualificationCheckpoint == Max(Checkpoints)

InTrial == pc \in {"game_loop", "returned"}

\* PlayGame has taken a step.
Played == pc = "game_loop" /\ numDraws' = numDraws + 1

\* C1: when max(checkpoints) < targetStars, sim_league returns g >= 1 exactly
\* when game g is the first game after which the counter equals targetStars,
\* and returns 0 exactly when the counter never equals targetStars after any
\* of the maxGames games.
C1_ReturnsFirstHit ==
  (InTrial /\ QualificationCheckpoint < options.stars) =>
     /\ pc = "game_loop" => firstHit = 0
     /\ pc = "returned" =>
          /\ ret = firstHit
          /\ ret \in 0 .. options.games_played
          /\ ret # 0 => numDraws = ret
          /\ ret = 0 => numDraws = options.games_played

C1_Witness ==
  /\ pc = "returned"
  /\ QualificationCheckpoint < options.stars
  /\ QualificationCheckpoint > 0
  /\ ret = 3
  /\ numCalls = 2

\* C2: for every configuration, degenerate ones included, the value returned
\* by sim_league is 0 or a game number in 1 .. maxGames.
C2_ResultInRange ==
  /\ pc = "returned" => ret \in 0 .. options.games_played
  /\ \A i \in DOMAIN results : results[i] \in 0 .. options.games_played

C2_Witness ==
  /\ pc = "returned"
  /\ QualificationCheckpoint >= options.stars
  /\ ret = options.games_played
  /\ ret > 1

\* C3: a win increases the star counter by exactly 1; a loss leaves it
\* unchanged when its pre-loss value is a checkpoint (0 included) and
\* otherwise decreases it by exactly 1; the counter is never below 0.
C3_StarCounter ==
  /\ [](InTrial => frame.total_stars >= 0)
  /\ [][Played =>
          IF frame.win_rate > frame'.cutoff
          THEN frame'.total_stars = frame.total_stars + 1
          ELSE IF frame.total_stars \in Checkpoints
               THEN frame'.total_stars = frame.total_stars
               ELSE frame'.total_stars = frame.total_stars - 1]_vars

\* A loss has just taken a star: the counter sits at a value that is not a
\* checkpoint, where a protected loss cannot leave it.
C3_Witness ==
  /\ pc = "game_loop"
  /\ numDraws = 3
  /\ ~lastWon
  /\ frame.total_stars = 1
  /\ frame.total_stars \notin Checkpoints

\* The win rate the configuration asks for after the qualification
\* checkpoint: qualsWinRate when supplied, winRate otherwise.
ConfiguredQualsWinRate ==
  IF options.quals_win_rate.given THEN options.quals_win_rate.val
  ELSE options.win_rate

\* C4: for every supplied qualsWinRate in [0,1], endpoints included, each
\* game before a win first brings the counter to the qualification
\* checkpoint is decided with winRate and every later game of the trial
\* with qualsWinRate; winRate is used afterwards only when qualsWinRate is
\* not supplied.
C4_RateSwitch ==
  (pc = "game_loop" /\ ConfiguredQualsWinRate \in 0 .. Den) =>
     frame.win_rate = IF reachedQuals THEN ConfiguredQualsWinRate
                      ELSE options.win_rate

\* C5: a win that brings the counter to a value equal to both the
\* qualification checkpoint and targetStars returns that game's 1-based
\* number immediately.
C5_QualifyAtCheckpoint ==
  [][(/\ Played
      /\ frame'.total_stars = frame.total_stars + 1
      /\ frame'.total_stars = QualificationCheckpoint
      /\ frame'.total_stars = options.stars)
     => (pc' = "returned" /\ ret' = numDraws')]_vars

\* C6: with winRate = 0 every game is a loss, and sim_league returns 0 after
\* consuming exactly maxGames draws.
C6_ZeroWinRate ==
  (InTrial /\ options.win_rate = 0) =>
     /\ ~lastWon
     /\ frame.total_stars = 0
     /\ numDraws <= options.games_played
     /\ pc = "returned" => (ret = 0 /\ numDraws = options.games_played)

C6_Witness ==
  /\ pc = "returned"
  /\ options.win_rate = 0
  /\ options.quals_win_rate = Text(Den)
  /\ options.games_played = MaxGames
  /\ numDraws = MaxGames
  /\ frame.cutoff = 0
  /\ ret = 0

\* C7: a run set calls the trial exactly numRuns times; afterwards
\* qualifiedCount is the number of trials with a nonzero result and
\* proportion = qualifiedCount / numRuns, which is 0 when every trial
\* returned 0 and 1 when every trial returned a nonzero value.
C7_Aggregate ==
  pc = "done" =>
     LET nonzero == {i \in DOMAIN results : results[i] # 0}
     IN /\ numCalls = options.runs
        /\ Len(results) = options.runs
        /\ num_quals = Cardinality(nonzero)
        /\ num_quals \in 0 .. options.runs
        /\ proportion_quals[1] * options.runs = num_quals * proportion_quals[2]
        /\ proportion_quals[2] > 0
        /\ nonzero = {} => proportion_quals = <<0, 1>>
        /\ nonzero = DOMAIN results => proportion_quals = <<1, 1>>

C7_Witness ==
  /\ pc = "done"
  /\ options.runs = 2
  /\ num_quals = 1

\* C8: a trial of a run set, passed the stops list object the earlier trials
\* were passed, goes through the same states and returns the same result as
\* a call given the same parameters and the same draws on the list as
\* supplied: the result does not depend on how many trials ran before.
C8_SameDrawsSameResult ==
  InTrial =>
     /\ ref.frame = frame
     /\ ref.returned = (pc = "returned")
     /\ pc = "returned" => ref.ret = ret

C8_Witness ==
  /\ pc = "returned"
  /\ numCalls = 2
  /\ ret = 3
  /\ options.stop = <<1>>
  /\ reachedQuals
  /\ frame.win_rate # options.win_rate

\* C9: after any number of sim_league calls the checkpoint collection the
\* caller supplied, and the default collection, have exactly the contents
\* they had before the first call.
C9_StopsNotMutated ==
  pc \in {"run_loop", "game_loop", "returned", "done"} =>
     /\ heap.DEFAULT_STOPS = DefaultStops
     /\ heap.user = options.stop

OutOfRange ==
  \/ options.runs <= 0
  \/ options.games_played <= 0
  \/ options.stars <= 0
  \/ options.win_rate \notin 0 .. Den
  \/ options.quals_win_rate.given /\ options.quals_win_rate.val \notin 0 .. Den

\* C10: if numRuns <= 0, maxGames <= 0, targetStars <= 0 or a win-rate
\* parameter is outside [0,1], the program fails with an error, runs no
\* trial and reports no result.
C10_Validation ==
  OutOfRange => (pc \in {"start", "error"} /\ numCalls = 0 /\ results = <<>>)

====
